---------------------------- MODULE Spec2Model ----------------------------
(***************************************************************************)
(* A model of swap.py of SeqExchange: random OTU selection, the swap of    *)
(* receiver sequences (replace_receiver_seqs), cross-contamination         *)
(* (cross_contaminate) and the noise injector (add_noise).                 *)
(*                                                                         *)
(* Strings are sequences of tokens: an OTU name is a sequence of           *)
(* one-character tokens, "@", "_from_", "_contaminated_", "_", "_subs"     *)
(* and the decimal form of a number are single tokens.  Sequence objects   *)
(* live in `heap` (object identity = index into heap); the alignment's     *)
(* `sequences` member is a Python list of object references.               *)
(***************************************************************************)
EXTENDS Integers, Sequences, FiniteSets, TLC

VARIABLES
    pc,                  \* position of the running call
    heap,                \* Sequence objects, by identity
    sequences,           \* msa.sequences: list of object identities
    before,              \* the alignment's Sequence values when the call was entered
    receivers,           \* argument: set of OTUs (exclude, for pick_otus_randomly)
    receiver_count,      \* local dict of replace_receiver_seqs / cross_contaminate
    pending,             \* keys of receiver_count the for loop has not visited yet
    otu,                 \* loop variable
    swap_count,          \* local of replace_receiver_seqs
    affected_receivers,  \* local of replace_receiver_seqs
    donors,              \* local of replace_receiver_seqs
    seqs,                \* local of replace_receiver_seqs
    likelihood,          \* argument of cross_contaminate, as likelihood * 100
    max_substitutions,   \* argument of cross_contaminate / add_noise
    contamination_count, \* local of cross_contaminate
    count,               \* argument of pick_otus_randomly
    sequence,            \* argument of add_noise
    ret,                 \* return value of add_noise
    picked,              \* return value of pick_otus_randomly
    step_len,            \* len(msa.sequences) when the loop body was entered
    evacuated            \* how many entries remove_seqs_from_otu removed

vars == <<pc, heap, sequences, before, receivers, receiver_count, pending, otu,
          swap_count, affected_receivers, donors, seqs, likelihood,
          max_substitutions, contamination_count, count, sequence, ret,
          picked, step_len, evacuated>>

---------------------------------------------------------------------------
(* Bounds of the model *)

MaxSeqs == 5
MaxContamSeqs == 2
MaxDataLen == 2
MaxContamSubs == 1
MaxLen == 4
MaxSubs == 3
MaxCount == 3

---------------------------------------------------------------------------
(* Python values *)

Range(s) == {s[i] : i \in DOMAIN s}

\* range(100) of random.randrange(100)
RandRange == 100

\* the OTU names of the modelled alignments; one name has two characters
OtuNames == {<<"A">>, <<"B">>, <<"A", "B">>}

Alphabet == {"a", "c", "g"}

\* a str on the right of `in`
PyStr(s) == [kind |-> "str", val |-> s]

\* a list or a set on the right of `in`
PyColl(c) == [kind |-> "coll", val |-> c]

\* x in s for two strs: x is a substring of s
IsSubstring(x, s) ==
    \E i \in 0..(Len(s) - Len(x)) : SubSeq(s, i + 1, i + Len(x)) = x

\* x in c
PyIn(x, c) == IF c.kind = "str" THEN IsSubstring(x, c.val) ELSE x \in c.val

\* random.sample(population, k), k <= len(population): the possible results
Samples(population, k) ==
    {f \in [1..k -> population] : \A i, j \in 1..k : i # j => f[i] # f[j]}

\* list.remove(x): removes the first occurrence of x
RECURSIVE RemoveFirst(_, _)
RemoveFirst(list, x) ==
    IF list = <<>> THEN <<>>
    ELSE IF Head(list) = x THEN Tail(list)
    ELSE <<Head(list)>> \o RemoveFirst(Tail(list), x)

\* an exception left the call
Raise == [ok |-> FALSE, sequence |-> <<>>, substitutions |-> 0]

---------------------------------------------------------------------------
(* add_noise *)

\* range(1, len(sequence)), as Python indexes
NoiseRangeFromZero(sequence_data) == 0..(Len(sequence_data) - 1)

NoiseRangeFromTwo(sequence_data) == 2..(Len(sequence_data) - 1)

NoiseRange(sequence_data) == 1..(Len(sequence_data) - 1)

\* for index, position in enumerate(positions):
\*     sequence[position] = sequence[replacements[index]]
RECURSIVE Substitute(_, _, _, _)
Substitute(sequence_data, positions, replacements, index) ==
    IF index > Len(positions) THEN sequence_data
    ELSE Substitute(
            [sequence_data EXCEPT ![positions[index] + 1] =
                sequence_data[replacements[index] + 1]],
            positions, replacements, index + 1)

\* the outcomes of add_noise(sequence, max_substitutions)
AddNoise(sequence_data, max_subs) ==
    IF max_subs < 1
    THEN {Raise}                                  \* randint(1, 0)
    ELSE UNION {
        IF substitutions > Cardinality(NoiseRange(sequence_data))
        THEN {Raise}                              \* sample larger than population
        ELSE {[ok |-> TRUE,
               sequence |-> Substitute(sequence_data, p[1], p[2], 1),
               substitutions |-> substitutions] :
                 p \in Samples(NoiseRange(sequence_data), substitutions)
                       \X Samples(NoiseRange(sequence_data), substitutions)}
        : substitutions \in 1..max_subs}

---------------------------------------------------------------------------
(* The alignment and its Sequence objects *)

\* the position of the first "@" of a description, 0 when it has none
FirstAt(description) ==
    IF \E i \in DOMAIN description : description[i] = "@"
    THEN CHOOSE i \in DOMAIN description :
            /\ description[i] = "@"
            /\ \A j \in 1..(i - 1) : description[j] # "@"
    ELSE 0

\* the OTU of a description "otu@identifier"
ParseOtu(description) ==
    IF FirstAt(description) = 0 THEN description
    ELSE SubSeq(description, 1, FirstAt(description) - 1)

\* the identifier of a description "otu@identifier"
ParseIdentifier(description) ==
    IF FirstAt(description) = 0 THEN <<>>
    ELSE SubSeq(description, FirstAt(description) + 1, Len(description))

\* a Sequence object made from a description and its data
NewSequence(description, sequence_data) ==
    [otu |-> ParseOtu(description),
     identifier |-> ParseIdentifier(description),
     description |-> description,
     sequence_data |-> sequence_data]

\* seq.description = description
SetDescription(seq, description) ==
    [seq EXCEPT !.description = description,
                !.otu = ParseOtu(description),
                !.identifier = ParseIdentifier(description)]

\* msa.otus()
Otus(list, h) == {h[list[i]].otu : i \in DOMAIN list}

\* msa.add_sequence(seq), msa.sequences after it
AddSequence(list, id) == Append(list, id)

\* msa.remove_sequence(seq), msa.sequences after it
RemoveSequence(list, id) == RemoveFirst(list, id)

\* the values of the alignment's sequences, in order
Snapshot(list, h) == [i \in DOMAIN list |-> h[list[i]]]

\* how many entries of the alignment belong to OTU o
CountOf(snapshot, o) == Cardinality({i \in DOMAIN snapshot : snapshot[i].otu = o})

---------------------------------------------------------------------------
(* pick_otus_randomly *)

PickOtusRandomlyOffByOne(otus_in_msa, n, exclude) ==
    IF Cardinality(otus_in_msa \ exclude) <= n
    THEN {<<>>}
    ELSE Samples(otus_in_msa \ exclude, n)

\* the possible results of pick_otus_randomly on an alignment whose otus() is
\* otus_in_msa; the empty set() and the sampled list are both sequences here
PickOtusRandomly(otus_in_msa, n, exclude) ==
    IF Cardinality(otus_in_msa \ exclude) < n
    THEN {<<>>}
    ELSE Samples(otus_in_msa \ exclude, n)

---------------------------------------------------------------------------
(* Query helpers *)

\* get_seqs_from_otus: a set of Sequence objects
GetSeqsFromOtus(list, h, otus) ==
    {list[i] : i \in {j \in DOMAIN list : PyIn(h[list[j]].otu, otus)}}

\* for seq in msa.sequences: if seq.otu in otus: msa.remove_sequence(seq)
\* the list iterator holds a Python index into the list being changed
RECURSIVE RemoveLoop(_, _, _, _)
RemoveLoop(list, h, otus, index) ==
    IF index >= Len(list) THEN list
    ELSE IF PyIn(h[list[index + 1]].otu, otus)
         THEN RemoveLoop(RemoveSequence(list, list[index + 1]), h, otus, index + 1)
         ELSE RemoveLoop(list, h, otus, index + 1)

\* remove_seqs_from_otu, msa.sequences after it
RemoveSeqsFromOtu(list, h, otus) == RemoveLoop(list, h, otus, 0)

\* receivers_in_msa
ReceiversInMsa(list, h, rcv) ==
    [r \in rcv |-> Cardinality({i \in DOMAIN list : h[list[i]].otu = r})]

\* '{}@{}_from_{}'.format(otu, seq.identifier, seq.otu)
FromDescription(o, identifier, seq_otu) ==
    o \o <<"@">> \o identifier \o <<"_from_">> \o seq_otu

\* set(otu) of a str: its characters
CharSet(o) == {<<o[i]>> : i \in DOMAIN o}

\* randomly_assign_seqs with the sequences visited in `order` and
\* random.sample(otus, 1)[0] giving choice[seq]
AssignSeqsNoInsert(list, h, order, choice) ==
    [heap |-> [id \in DOMAIN h |->
                 IF id \in Range(order)
                 THEN SetDescription(h[id],
                        FromDescription(choice[id], h[id].identifier, h[id].otu))
                 ELSE h[id]],
     sequences |-> list]

RECURSIVE AddEach(_, _)
AddEach(list, order) ==
    IF order = <<>> THEN list
    ELSE AddEach(AddSequence(list, Head(order)), Tail(order))

AssignSeqs(list, h, order, choice) ==
    [heap |-> [id \in DOMAIN h |->
                 IF id \in Range(order)
                 THEN SetDescription(h[id],
                        FromDescription(choice[id], h[id].identifier, h[id].otu))
                 ELSE h[id]],
     sequences |-> AddEach(list, order)]

\* randomly_assign_seqs: the possible results; `sequences` is a set, visited
\* in any order
RandomlyAssignSeqs(list, h, sequence_set, otus) ==
    {AssignSeqs(list, h, order, choice) :
        order \in Samples(sequence_set, Cardinality(sequence_set)),
        choice \in [sequence_set -> otus]}

\* for seq in random.sample(...): msa.sequences.remove(seq)
RECURSIVE RemoveEach(_, _)
RemoveEach(list, sample) ==
    IF sample = {} THEN list
    ELSE LET seq == CHOOSE s \in sample : TRUE
         IN RemoveEach(RemoveFirst(list, seq), sample \ {seq})

---------------------------------------------------------------------------
(* Alignments as loaded *)

\* the identifier of the i-th loaded sequence
LoadedIdentifier(i) == <<"s", ToString(i)>>

\* the data of the i-th loaded sequence, of the alignment's length
LoadedData(i, length) ==
    [j \in 1..length |-> IF (i + j) % 3 = 0 THEN "a"
                         ELSE IF (i + j) % 3 = 1 THEN "c" ELSE "g"]

Loaded(o, i, length) ==
    NewSequence(o \o <<"@">> \o LoadedIdentifier(i), LoadedData(i, length))

\* an alignment of at most n sequences of the given length is loaded
LoadAlignment(names, n, length) ==
    \E k \in 0..n : \E f \in [1..k -> names] :
        /\ heap = [i \in 1..k |-> Loaded(f[i], i, length)]
        /\ sequences = [i \in 1..k |-> i]
        /\ before = Snapshot(sequences, heap)

\* no call has started: the locals hold nothing
Idle ==
    /\ receiver_count = <<>>
    /\ pending = {}
    /\ otu = <<>>
    /\ swap_count = 0
    /\ affected_receivers = {}
    /\ donors = <<>>
    /\ seqs = {}
    /\ step_len = 0
    /\ evacuated = 0
    /\ contamination_count = 0
    /\ ret = Raise
    /\ picked = <<>>

---------------------------------------------------------------------------
(* replace_receiver_seqs(msa, receivers) *)

InitSwap ==
    /\ pc = "swap_call"
    /\ LoadAlignment(OtuNames, MaxSeqs, 1)
    /\ Idle
    /\ receivers \in SUBSET OtuNames
    /\ likelihood = 0
    /\ max_substitutions = 0
    /\ count = 0
    /\ sequence = <<>>

\* lines 27-29
SwapEnter ==
    /\ pc = "swap_call"
    /\ receiver_count' = ReceiversInMsa(sequences, heap, receivers)
    /\ affected_receivers' = {}
    /\ swap_count' = 0
    /\ pending' = receivers
    /\ pc' = "swap_loop"
    /\ UNCHANGED <<heap, sequences, before, receivers, otu, donors, seqs,
                   step_len, evacuated, likelihood, max_substitutions,
                   contamination_count, count, sequence, ret, picked>>

\* lines 31-33: a receiver with at most one sequence is passed over
SwapContinue ==
    /\ pc = "swap_loop"
    /\ \E o \in pending :
        /\ receiver_count[o] <= 1
        /\ otu' = o
        /\ pending' = pending \ {o}
    /\ UNCHANGED <<pc, heap, sequences, before, receivers, receiver_count,
                   swap_count, affected_receivers, donors, seqs, step_len,
                   evacuated, likelihood, max_substitutions,
                   contamination_count, count, sequence, ret, picked>>

\* lines 35-40: the old sequences are sampled and removed
SwapRemoveOld ==
    /\ pc = "swap_loop"
    /\ \E o \in pending :
        /\ receiver_count[o] > 1
        /\ otu' = o
        /\ pending' = pending \ {o}
        /\ swap_count' = swap_count + receiver_count[o] - 1
        /\ step_len' = Len(sequences)
        /\ LET receiver_seqs == GetSeqsFromOtus(sequences, heap, PyStr(o))
           IN IF swap_count' > Cardinality(receiver_seqs)
              THEN /\ pc' = "raised"       \* ValueError of random.sample
                   /\ UNCHANGED sequences
              ELSE /\ pc' = "swap_removed"
                   /\ \E sample \in SUBSET receiver_seqs :
                        /\ Cardinality(sample) = swap_count'
                        /\ sequences' = RemoveEach(sequences, sample)
    /\ UNCHANGED <<heap, before, receivers, receiver_count, affected_receivers,
                   donors, seqs, evacuated, likelihood, max_substitutions,
                   contamination_count, count, sequence, ret, picked>>

\* lines 43-46: the donors are picked, their sequences collected and removed
SwapEvacuate ==
    /\ pc = "swap_removed"
    /\ affected_receivers' = affected_receivers \cup {otu}
    /\ \E d \in PickOtusRandomly(Otus(sequences, heap), swap_count, receivers) :
        /\ donors' = d
        /\ seqs' = GetSeqsFromOtus(sequences, heap, PyColl(Range(d)))
        /\ sequences' = RemoveSeqsFromOtu(sequences, heap, PyColl(Range(d)))
    /\ evacuated' = Len(sequences) - Len(sequences')
    /\ pc' = "swap_evacuated"
    /\ UNCHANGED <<heap, before, receivers, receiver_count, pending, otu,
                   swap_count, step_len, likelihood, max_substitutions,
                   contamination_count, count, sequence, ret, picked>>

\* line 47: the collected sequences are assigned to set(otu)
SwapAssign ==
    /\ pc = "swap_evacuated"
    /\ \E r \in RandomlyAssignSeqs(sequences, heap, seqs, CharSet(otu)) :
        /\ heap' = r.heap
        /\ sequences' = r.sequences
    /\ pc' = "swap_loop"
    /\ UNCHANGED <<before, receivers, receiver_count, pending, otu, swap_count,
                   affected_receivers, donors, seqs, step_len, evacuated,
                   likelihood, max_substitutions, contamination_count, count,
                   sequence, ret, picked>>

\* lines 49-54
SwapReturn ==
    /\ pc = "swap_loop"
    /\ pending = {}
    /\ pc' = "done"
    /\ UNCHANGED <<heap, sequences, before, receivers, receiver_count, pending,
                   otu, swap_count, affected_receivers, donors, seqs, step_len,
                   evacuated, likelihood, max_substitutions,
                   contamination_count, count, sequence, ret, picked>>

NextSwap ==
    \/ SwapEnter
    \/ SwapContinue
    \/ SwapRemoveOld
    \/ SwapEvacuate
    \/ SwapAssign
    \/ SwapReturn

SpecSwap == InitSwap /\ [][NextSwap]_vars

---------------------------------------------------------------------------
(* cross_contaminate(msa, receivers, likelihood, max_substitutions) *)

\* the OTU names of the alignments that are contaminated
ContaminateOtuNames == {<<"A">>, <<"A", "B">>}

\* the likelihoods of the model, as likelihood * 100: 0.0, 0.5 and 1.0
Likelihoods == {0, 50, 100}

\* line 123: the receiver is passed over
PassedOver(draw, likelihood_x_100) == draw > likelihood_x_100

\* some value of random.randrange(100) passes the receiver over
SomeDrawPassesOver(likelihood_x_100) ==
    \E draw \in 0..(RandRange - 1) : PassedOver(draw, likelihood_x_100)

\* some value of random.randrange(100) lets the event happen
SomeDrawContaminates(likelihood_x_100) ==
    \E draw \in 0..(RandRange - 1) : ~PassedOver(draw, likelihood_x_100)

ContaminantDescriptionOfReceiver(contaminant, original_seq, o, substitutions) ==
    o \o <<"@">> \o original_seq.identifier \o <<"_contaminated_">> \o o
      \o <<"_", ToString(substitutions), "_subs">>

\* lines 137-140
ContaminantDescription(contaminant, original_seq, o, substitutions) ==
    contaminant.otu \o <<"@">> \o original_seq.identifier
      \o <<"_contaminated_">> \o o \o <<"_", ToString(substitutions), "_subs">>

InsertOnly(list, new, contaminant) == AddSequence(list, new)

\* lines 141-143: msa.sequences after the new sequence is added and the
\* contaminant removed
InsertAndRemove(list, new, contaminant) ==
    RemoveSequence(AddSequence(list, new), contaminant)

InitContaminate ==
    /\ pc = "contaminate_call"
    /\ \E length \in 1..MaxDataLen : LoadAlignment(ContaminateOtuNames, MaxContamSeqs, length)
    /\ Idle
    /\ receivers \in SUBSET ContaminateOtuNames
    /\ likelihood \in Likelihoods
    /\ max_substitutions \in 0..MaxContamSubs
    /\ count = 0
    /\ sequence = <<>>

\* lines 116-117
ContaminateEnter ==
    /\ pc = "contaminate_call"
    /\ receiver_count' = ReceiversInMsa(sequences, heap, receivers)
    /\ contamination_count' = 0
    /\ pending' = receivers
    /\ pc' = "contaminate_loop"
    /\ UNCHANGED <<heap, sequences, before, receivers, otu, swap_count,
                   affected_receivers, donors, seqs, step_len, evacuated,
                   likelihood, max_substitutions, count, sequence, ret, picked>>

\* lines 119-124: a receiver that is absent, or that the draw passes over
ContaminateContinue ==
    /\ pc = "contaminate_loop"
    /\ \E o \in pending :
        /\ \/ receiver_count[o] = 0
           \/ /\ receiver_count[o] # 0
              /\ SomeDrawPassesOver(likelihood) = TRUE
        /\ otu' = o
        /\ pending' = pending \ {o}
    /\ UNCHANGED <<pc, heap, sequences, before, receivers, receiver_count,
                   swap_count, affected_receivers, donors, seqs, step_len,
                   evacuated, likelihood, max_substitutions,
                   contamination_count, count, sequence, ret, picked>>

\* lines 126-143: one contamination event
ContaminateEvent ==
    /\ pc = "contaminate_loop"
    /\ \E o \in pending :
        /\ receiver_count[o] # 0
        /\ SomeDrawContaminates(likelihood) = TRUE
        /\ otu' = o
        /\ pending' = pending \ {o}
        /\ contamination_count' = contamination_count + 1
        /\ LET otu_seqs == GetSeqsFromOtus(sequences, heap, PyStr(o))
           IN IF otu_seqs = {}
              THEN /\ pc' = "raised"       \* ValueError of random.sample
                   /\ UNCHANGED <<heap, sequences, ret>>
              ELSE \E original_seq \in otu_seqs :
                   \E noise \in AddNoise(heap[original_seq].sequence_data,
                                         max_substitutions) :
                     /\ ret' = noise
                     /\ IF ~noise.ok
                        THEN /\ pc' = "raised"
                             /\ UNCHANGED <<heap, sequences>>
                        ELSE \E i \in DOMAIN sequences :
                             LET contaminant == sequences[i]
                                 new == Len(heap) + 1
                             IN /\ heap' = Append(heap,
                                      NewSequence(
                                        ContaminantDescription(heap[contaminant],
                                          heap[original_seq], o, noise.substitutions),
                                        noise.sequence))
                                /\ sequences' =
                                      InsertAndRemove(sequences, new, contaminant)
                                /\ pc' = "contaminate_loop"
    /\ UNCHANGED <<before, receivers, receiver_count, swap_count,
                   affected_receivers, donors, seqs, step_len, evacuated,
                   likelihood, max_substitutions, count, sequence, picked>>

\* lines 145-149
ContaminateReturn ==
    /\ pc = "contaminate_loop"
    /\ pending = {}
    /\ pc' = "done"
    /\ UNCHANGED <<heap, sequences, before, receivers, receiver_count, pending,
                   otu, swap_count, affected_receivers, donors, seqs, step_len,
                   evacuated, likelihood, max_substitutions,
                   contamination_count, count, sequence, ret, picked>>

NextContaminate ==
    \/ ContaminateEnter
    \/ ContaminateContinue
    \/ ContaminateEvent
    \/ ContaminateReturn

SpecContaminate == InitContaminate /\ [][NextContaminate]_vars

---------------------------------------------------------------------------
(* add_noise(sequence, max_substitutions) on its own *)

\* the strs of length n over the alphabet
Strings(n) == UNION {[1..k -> Alphabet] : k \in 0..n}

InitNoise ==
    /\ pc = "noise_call"
    /\ heap = <<>>
    /\ sequences = <<>>
    /\ before = <<>>
    /\ receivers = {}
    /\ Idle
    /\ sequence \in Strings(MaxLen)
    /\ max_substitutions \in 0..MaxSubs
    /\ likelihood = 0
    /\ count = 0

\* lines 158-166
NoiseCall ==
    /\ pc = "noise_call"
    /\ ret' \in AddNoise(sequence, max_substitutions)
    /\ pc' = IF ret'.ok THEN "done" ELSE "raised"
    /\ UNCHANGED <<heap, sequences, before, receivers, receiver_count, pending,
                   otu, swap_count, affected_receivers, donors, seqs, step_len,
                   evacuated, likelihood, max_substitutions,
                   contamination_count, count, sequence, picked>>

NextNoise == NoiseCall

SpecNoise == InitNoise /\ [][NextNoise]_vars

---------------------------------------------------------------------------
(* pick_otus_randomly(msa, count, exclude) on its own *)

InitPick ==
    /\ pc = "pick_call"
    /\ LoadAlignment(OtuNames, MaxSeqs, 1)
    /\ Idle
    /\ receivers \in SUBSET OtuNames
    /\ count \in 0..MaxCount
    /\ likelihood = 0
    /\ max_substitutions = 0
    /\ sequence = <<>>

\* lines 11-20
PickCall ==
    /\ pc = "pick_call"
    /\ picked' \in PickOtusRandomly(Otus(sequences, heap), count, receivers)
    /\ pc' = "done"
    /\ UNCHANGED <<heap, sequences, before, receivers, receiver_count, pending,
                   otu, swap_count, affected_receivers, donors, seqs, step_len,
                   evacuated, likelihood, max_substitutions,
                   contamination_count, count, sequence, ret>>

NextPick == PickCall

SpecPick == InitPick /\ [][NextPick]_vars

---------------------------------------------------------------------------
(* Any one call *)

Init == InitSwap \/ InitContaminate \/ InitNoise \/ InitPick

Next == NextSwap \/ NextContaminate \/ NextNoise \/ NextPick

Spec == Init /\ [][Next]_vars

---------------------------------------------------------------------------
(* Properties *)

\* cross_contaminate has been entered
InContaminate == pc \in {"contaminate_loop", "done", "raised"}

\* the loop body of replace_receiver_seqs ends: its last call returns
SwapStepEnds == pc = "swap_evacuated" /\ pc' = "swap_loop"

\* C1: with likelihood = 0.0 cross_contaminate performs no contamination
\* event and leaves the alignment's sequences as they were, whatever the
\* draws are.
C1_ZeroLikelihoodNoEvents ==
    (pc = "done" /\ likelihood = 0) =>
        /\ contamination_count = 0
        /\ Snapshot(sequences, heap) = before

\* C2 as claimed: a step of replace_receiver_seqs changes the number of
\* sequences by (sequences imported - sequences removed from the receiver).
C2_ImportedMinusRemoved ==
    [][SwapStepEnds =>
        Len(sequences') = step_len + Cardinality(seqs) - swap_count]_vars

\* C2 as amended: a step of replace_receiver_seqs changes the number of
\* sequences by (sequences imported - sequences removed from the receiver
\* - entries removed by the evacuation of the donors); when
\* pick_otus_randomly returns empty nothing is imported or evacuated and the
\* number decreases by the number removed from the receiver, which is >= 1.
C2_ImportedMinusRemovedMinusEvacuated ==
    [][SwapStepEnds =>
        /\ Len(sequences') =
              step_len + Cardinality(seqs) - swap_count - evacuated
        /\ donors = <<>> =>
              /\ seqs = {}
              /\ evacuated = 0
              /\ swap_count >= 1
              /\ Len(sequences') = step_len - swap_count]_vars

\* a step has imported sequences and the alignment is smaller by the number
\* of sequences removed from the receiver
C2_StepWithImports ==
    /\ pc = "swap_loop"
    /\ otu \in affected_receivers
    /\ seqs # {}
    /\ evacuated = Cardinality(seqs)
    /\ Len(sequences) = step_len - swap_count

\* C3: every sequence collected from the donors is labelled
\* '{receiver}@{identifier}_from_{otu}' with the whole identifier of the
\* current receiver, and is inserted into the alignment.
C3_LabelledWithReceiver ==
    [][SwapStepEnds =>
        \A s \in seqs :
            /\ heap'[s].description =
                  FromDescription(otu, heap[s].identifier, heap[s].otu)
            /\ s \in Range(sequences')]_vars

\* C4: when remove_seqs_from_otu has finished, no sequence of the alignment
\* belongs to one of the donor OTUs.
C4_DonorsEvacuated ==
    pc = "swap_evacuated" =>
        \A i \in DOMAIN sequences : heap[sequences[i]].otu \notin Range(donors)

\* C5: cross_contaminate keeps the number of sequences of the alignment,
\* for any number of events.
C5_TotalPreserved == InContaminate => Len(sequences) = Len(before)

\* cross_contaminate has returned after two events
C5_TwoEvents ==
    /\ pc = "done"
    /\ contamination_count = 2
    /\ \E i \in DOMAIN sequences : sequences[i] > Len(before)

\* C6: pick_otus_randomly returns no OTU of exclude; it returns nothing when
\* count exceeds the OTUs left after the exclusion, and count distinct OTUs
\* of the alignment otherwise.
C6_PickOtus ==
    pc = "done" =>
        LET candidates == Otus(sequences, heap) \ receivers
        IN /\ \A i \in DOMAIN picked : picked[i] \notin receivers
           /\ count > Cardinality(candidates) => picked = <<>>
           /\ count <= Cardinality(candidates) =>
                /\ Len(picked) = count
                /\ Cardinality(Range(picked)) = count
                /\ Range(picked) \subseteq Otus(sequences, heap)

\* pick_otus_randomly has returned two OTUs of an alignment that holds an
\* excluded OTU as well
C6_PickedTwo ==
    /\ pc = "done"
    /\ count = 2
    /\ Len(picked) = 2
    /\ receivers \cap Otus(sequences, heap) # {}

\* C7: a result of add_noise has the length of the input and the input's
\* first character, and its substitution count is in 1..max_substitutions.
C7_NoiseResult ==
    (pc = "done" /\ ret.ok) =>
        /\ Len(ret.sequence) = Len(sequence)
        /\ ret.sequence[1] = sequence[1]
        /\ ret.substitutions \in 1..max_substitutions

\* add_noise has returned a changed string after two substitutions
C7_TwoSubstitutions ==
    /\ pc = "done"
    /\ ret.ok
    /\ ret.substitutions = 2
    /\ ret.sequence # sequence

\* C8: replace_receiver_seqs never samples more sequences than the receiver
\* has: no call ends in the sampling error.
C8_NeverRaises == pc # "raised"

\* C9 as claimed: add_noise completes for every sequence of length >= 2 and
\* every max_substitutions >= 1.
C9_CompletesFromLengthTwo ==
    (pc # "noise_call" /\ Len(sequence) >= 2 /\ max_substitutions >= 1) =>
        pc = "done"

\* C9 as amended: add_noise completes whenever
\* 1 <= max_substitutions <= len(sequence) - 1; it fails only when
\* max_substitutions < 1 or max_substitutions > len(sequence) - 1, and always
\* when max_substitutions < 1 or the sequence has fewer than 2 characters.
C9_CompletesUpToLengthMinusOne ==
    /\ pc = "raised" =>
          \/ max_substitutions < 1
          \/ max_substitutions > Len(sequence) - 1
    /\ pc = "done" =>
          /\ max_substitutions >= 1
          /\ Len(sequence) >= 2

\* add_noise has returned with max_substitutions = len(sequence) - 1 >= 2
C9_CompletedAtTheLimit ==
    /\ pc = "done"
    /\ ret.ok
    /\ max_substitutions >= 2
    /\ max_substitutions = Len(sequence) - 1

\* C10: cross_contaminate keeps the number of sequences of every OTU, so the
\* counts taken at the start stay right and every receiver still to be
\* contaminated has a sequence to sample.
C10_PerOtuPreserved ==
    InContaminate =>
        LET now == Snapshot(sequences, heap)
        IN /\ \A o \in Range([i \in DOMAIN now |-> now[i].otu])
                    \cup Range([i \in DOMAIN before |-> before[i].otu]) :
                 CountOf(now, o) = CountOf(before, o)
           /\ \A r \in receivers : receiver_count[r] = CountOf(now, r)
           /\ \A r \in pending :
                 receiver_count[r] # 0 =>
                    GetSeqsFromOtus(sequences, heap, PyStr(r)) # {}

\* cross_contaminate has returned from an alignment of two OTUs that now
\* holds a synthesized sequence
C10_ContaminantInPlace ==
    /\ pc = "done"
    /\ contamination_count >= 1
    /\ Cardinality(Otus(sequences, heap)) = 2
    /\ \E i \in DOMAIN sequences : sequences[i] > Len(before)

=============================================================================
